---- MODULE Spec2Model ----
(***************************************************************************)
(* Model of dashboard/app.py: a PyShiny Express dashboard whose reactive   *)
(* calc (reactive_calc_combined) appends one random temperature reading to *)
(* a deque(maxlen=DEQUE_SIZE) each time it is recomputed, caches the tuple *)
(* (deque_snapshot, df, latest_dictionary_entry), and is read by five      *)
(* render functions.                                                       *)
(*                                                                         *)
(* Temperatures are kept in tenths of a degree (round(.., 1)), so 17.0 C   *)
(* is 170 and the pie chart's cut point 20 is 200.  Times are whole        *)
(* seconds ("%Y-%m-%d %H:%M:%S").  Floats produced by the regression are   *)
(* exact fractions <<"num", n, d>>, or <<"nan", 0, 0>>.                    *)
(***************************************************************************)
EXTENDS Integers, Sequences, FiniteSets

VARIABLES
    deq,      \* the deque inside reactive_value_wrapper
    cache,    \* the value the reactive calc holds: [df, latest]
    valid,    \* TRUE while the calc's cached value is current
    timer,    \* "armed" while an invalidate_later timer is pending
    now,      \* the wall clock, in seconds
    pushed,   \* every reading ever appended, in order
    first,    \* what the first call since the last invalidation returned
    ret       \* the last render call: who, what the calc returned, the outcome

vars == <<deq, cache, valid, timer, now, pushed, first, ret>>

----------------------------------------------------------------------------
(* Program constants *)

UPDATE_INTERVAL_SECS == 1
DEQUE_SIZE == 10
Threshold == 200

(* Bounds of the model *)

\* readings pushed in a run of Spec (more than DEQUE_SIZE, so the deque evicts)
MaxTicks == 11
\* readings pushed in a run of SpecE2E
MaxTicksE2E == 4
\* longest window drawn by SpecFn
MaxWin == 5

\* values the source draws from in Spec: the cut point itself and one above
Temps == {200, 210}
\* the stubbed source of the end-to-end scenario
TempsE2E == {170, 180, 190}
\* values of the windows drawn by SpecFn
TempsFn == {180, 190, 200, 210, 220}

\* scipy.stats.linregress on identical x values: recent builds raise
\* ValueError, older builds divide 0.0 by 0.0 and return nan
ScipyBuilds == {"raises", "nan"}

----------------------------------------------------------------------------
(* Numbers *)

Abs(n) == IF n < 0 THEN -n ELSE n

Min(a, b) == IF a < b THEN a ELSE b

RECURSIVE Gcd(_, _)
Gcd(a, b) == IF b = 0 THEN a ELSE Gcd(b, a % b)

NaN == <<"nan", 0, 0>>
NoNum == <<"none", 0, 0>>

\* the float n/d, d # 0
Rat(n, d) ==
    LET g == Gcd(Abs(n), Abs(d))
        s == IF d < 0 THEN -1 ELSE 1
    IN  <<"num", (s * n) \div g, (s * d) \div g>>

RatAdd(p, q) ==
    IF p[1] # "num" \/ q[1] # "num" THEN NaN
    ELSE Rat(p[2] * q[3] + q[2] * p[3], p[3] * q[3])

RatMul(p, q) ==
    IF p[1] # "num" \/ q[1] # "num" THEN NaN
    ELSE Rat(p[2] * q[2], p[3] * q[3])

RECURSIVE SumSeq(_)
SumSeq(s) == IF s = <<>> THEN 0 ELSE s[1] + SumSeq(Tail(s))

----------------------------------------------------------------------------
(* Readings, timestamps, the deque *)

\* datetime.now().strftime("%Y-%m-%d %H:%M:%S")
StrfTime(t) == <<"str", t>>

\* pd.to_datetime on a column cell: a string is parsed, a datetime is kept
ToDatetime(cell) == <<"datetime", cell[2]>>

\* the instant a timestamp cell denotes, whatever its representation
Instant(cell) == cell[2]

NewEntry(temp) == [Temp |-> temp, Timestamp |-> StrfTime(now)]

NullEntry == [Temp |-> 0, Timestamp |-> StrfTime(0)]

\* deque.append without the maxlen
DequeAppendUnbounded(d, x) == Append(d, x)

\* deque(maxlen=cap).append: a full deque drops its leftmost item
DequeAppendCap(d, x, cap) ==
    IF Len(d) = cap THEN Append(Tail(d), x) ELSE Append(d, x)

\* reactive_value_wrapper.get().append(x) on the deque(maxlen=DEQUE_SIZE)
DequeAppend(d, x) == DequeAppendCap(d, x, DEQUE_SIZE)

RECURSIVE PushAll(_, _, _)
PushAll(d, xs, cap) ==
    IF xs = <<>> THEN d
    ELSE PushAll(DequeAppendCap(d, Head(xs), cap), Tail(xs), cap)

\* the last k items of s
LastK(s, k) == SubSeq(s, Len(s) - k + 1, Len(s))

----------------------------------------------------------------------------
(* The DataFrame *)

\* pd.DataFrame(deque of dicts): one row per dict, the dict's keys as the
\* columns; an empty deque gives a frame with no rows and no columns
DataFrame(d) ==
    [columns |-> IF d = <<>> THEN <<>> ELSE <<"Temp", "Timestamp">>,
     rows    |-> d]

HasColumn(df, c) == \E i \in 1..Len(df.columns) : df.columns[i] = c

Column(df, c) == [i \in 1..Len(df.rows) |-> df.rows[i][c]]

\* df[c] = vals: an existing column is overwritten, a new one is added last
RowSet(row, c, v) ==
    [k \in (DOMAIN row) \cup {c} |-> IF k = c THEN v ELSE row[k]]

SetColumn(df, c, vals) ==
    [columns |-> IF HasColumn(df, c) THEN df.columns ELSE Append(df.columns, c),
     rows    |-> [i \in 1..Len(df.rows) |-> RowSet(df.rows[i], c, vals[i])]]

----------------------------------------------------------------------------
(* scipy.stats.linregress *)

Dot(xs, ys) == SumSeq([i \in 1..Len(xs) |-> xs[i] * ys[i]])

\* n * n * (the variance of xs)
SSxm(xs) == Len(xs) * Dot(xs, xs) - SumSeq(xs) * SumSeq(xs)

\* n * n * (the covariance of xs and ys)
SSxym(xs, ys) == Len(xs) * Dot(xs, ys) - SumSeq(xs) * SumSeq(ys)

\* slope = ssxym / ssxm, intercept = ymean - slope * xmean.  Empty inputs
\* raise; identical x values raise or give nan, by the build.
linregress(xs, ys, build) ==
    IF Len(xs) = 0
    THEN [status |-> "ValueError", slope |-> NoNum, intercept |-> NoNum]
    ELSE IF SSxm(xs) = 0
    THEN IF build = "raises"
         THEN [status |-> "ValueError", slope |-> NoNum, intercept |-> NoNum]
         ELSE [status |-> "ok", slope |-> NaN, intercept |-> NaN]
    ELSE LET slope == Rat(SSxym(xs, ys), SSxm(xs))
             ymean == Rat(SumSeq(ys), Len(ys))
             xmean == Rat(SumSeq(xs), Len(xs))
         IN  [status    |-> "ok",
              slope     |-> slope,
              intercept |-> RatAdd(ymean, RatMul(Rat(-1, 1), RatMul(slope, xmean)))]

\* list(range(1, n + 1))
RangeFromOne(n) == [i \in 1..n |-> i]

\* list(range(n))
Range(n) == [i \in 1..n |-> i - 1]

----------------------------------------------------------------------------
(* The bodies of the render functions, after their call of the calc.  Each *)
(* takes the tuple the calc returned and gives the frame as the body       *)
(* leaves it (the frame is the calc's own object, not a copy) and what the *)
(* function returns or raises.                                             *)

Outcome(status, df, slope, intercept, over, under, text) ==
    [status |-> status, df |-> df, slope |-> slope, intercept |-> intercept,
     over |-> over, under |-> under, text |-> text]

NoText == <<"", 0>>

temp_body(got) ==
    Outcome("ok", got.df, NoNum, NoNum, -1, -1, <<"C", got.latest.Temp>>)

\* strptime of the "%Y-%m-%d %H:%M:%S" string, then strftime in another format
time_body(got) ==
    Outcome("ok", got.df, NoNum, NoNum, -1, -1,
            <<"%b %d, %Y %I:%M:%S %p", Instant(got.latest.Timestamp)>>)

\* render.DataGrid(df): the grid shows the frame as it is now
df_body(got) ==
    Outcome("ok", got.df, NoNum, NoNum, -1, -1, NoText)

\* display_plot: an empty frame skips the block and reaches "return fig" with
\* fig unbound; otherwise the Timestamp column is converted in place, the
\* line is fitted over x = 0..n-1 and stored in a new column of the frame
plot_body(got, build) ==
    IF Len(got.df.rows) = 0
    THEN Outcome("UnboundLocalError", got.df, NoNum, NoNum, -1, -1, NoText)
    ELSE LET df1 == SetColumn(got.df, "Timestamp",
                        [i \in 1..Len(got.df.rows) |->
                            ToDatetime(got.df.rows[i].Timestamp)])
             x_vals == Range(Len(df1.rows))
             fit    == linregress(x_vals, Column(df1, "Temp"), build)
         IN  IF fit.status # "ok"
             THEN Outcome(fit.status, df1, NoNum, NoNum, -1, -1, NoText)
             ELSE Outcome("ok",
                      SetColumn(df1, "best_fit_line",
                          [i \in 1..Len(x_vals) |->
                              RatAdd(RatMul(fit.slope, Rat(x_vals[i], 1)),
                                     fit.intercept)]),
                      fit.slope, fit.intercept, -1, -1, NoText)

\* len(df[df['Temp'] >= 20])
CountOverInclusive(df) ==
    Cardinality({i \in 1..Len(df.rows) : df.rows[i].Temp >= Threshold})

\* len(df[df['Temp'] > 20])
CountOver(df) ==
    Cardinality({i \in 1..Len(df.rows) : df.rows[i].Temp > Threshold})

\* len(df[df['Temp'] <= 20])
CountUnder(df) ==
    Cardinality({i \in 1..Len(df.rows) : df.rows[i].Temp <= Threshold})

\* display_pie_chart: df['Temp'] on a frame without that column is a KeyError
pie_body(got) ==
    IF ~HasColumn(got.df, "Temp")
    THEN Outcome("KeyError", got.df, NoNum, NoNum, -1, -1, NoText)
    ELSE Outcome("ok", got.df, NoNum, NoNum,
                 CountOver(got.df), CountUnder(got.df), NoText)

----------------------------------------------------------------------------
(* The reactive calc *)

Got(d, df, latest, ran) ==
    [deque_snapshot |-> d, df |-> df, latest |-> latest, ran |-> ran]

\* the calc's body with the frame built before the append
calc_body_stale_df(temp) ==
    LET entry == NewEntry(temp)
    IN  Got(DequeAppend(deq, entry), DataFrame(deq), entry, TRUE)

\* the calc's body with the latest entry read from the left end of the deque
calc_body_oldest_latest(temp) ==
    LET entry == NewEntry(temp)
        d     == DequeAppend(deq, entry)
    IN  Got(d, DataFrame(d), d[1], TRUE)

\* draw a reading, append it to the deque, build the frame from the deque,
\* return (deque, frame, the new reading)
calc_body(temp) ==
    LET entry == NewEntry(temp)
        d     == DequeAppend(deq, entry)
    IN  Got(d, DataFrame(d), entry, TRUE)

\* a call of reactive_calc_combined(): a current value is returned as cached
\* (the deque itself, the same frame object, the same dict); an invalidated
\* or never computed calc runs its body now
reactive_calc_combined(temp) ==
    IF valid THEN Got(deq, cache.df, cache.latest, FALSE) ELSE calc_body(temp)

\* random.uniform is called only when the calc's body runs
Draw(T) == IF valid THEN {CHOOSE t \in T : TRUE} ELSE T

\* a render function runs: it calls the calc, then its body works on what it
\* got.  A recomputation arms invalidate_later and records the append.
Render(who, got, out) ==
    /\ deq' = got.deque_snapshot
    /\ cache' = [df |-> out.df, latest |-> got.latest]
    /\ valid' = TRUE
    /\ timer' = IF got.ran THEN "armed" ELSE timer
    /\ pushed' = IF got.ran THEN Append(pushed, got.latest) ELSE pushed
    /\ first' = IF got.ran \/ ~first.set
                THEN [set |-> TRUE, got |-> got] ELSE first
    /\ ret' = [who |-> who, got |-> got, out |-> out]
    /\ UNCHANGED now

display_temp(T, B) ==
    \E temp \in Draw(T) :
        /\ valid \/ Len(pushed) < B
        /\ LET got == reactive_calc_combined(temp)
           IN  Render("display_temp", got, temp_body(got))

display_time(T, B) ==
    \E temp \in Draw(T) :
        /\ valid \/ Len(pushed) < B
        /\ LET got == reactive_calc_combined(temp)
           IN  Render("display_time", got, time_body(got))

display_df(T, B) ==
    \E temp \in Draw(T) :
        /\ valid \/ Len(pushed) < B
        /\ LET got == reactive_calc_combined(temp)
           IN  Render("display_df", got, df_body(got))

display_plot(T, B) ==
    \E temp \in Draw(T), build \in ScipyBuilds :
        /\ valid \/ Len(pushed) < B
        /\ LET got == reactive_calc_combined(temp)
           IN  Render("display_plot", got, plot_body(got, build))

display_pie_chart(T, B) ==
    \E temp \in Draw(T) :
        /\ valid \/ Len(pushed) < B
        /\ LET got == reactive_calc_combined(temp)
           IN  Render("display_pie_chart", got, pie_body(got))

\* the invalidate_later timer firing and recomputing the calc at once
invalidate_later_eager(B) ==
    /\ timer = "armed"
    /\ Len(pushed) < B
    /\ \E temp \in Temps :
        LET got == calc_body(temp)
        IN  /\ deq' = got.deque_snapshot
            /\ cache' = [df |-> got.df, latest |-> got.latest]
            /\ pushed' = Append(pushed, got.latest)
    /\ now' = now + UPDATE_INTERVAL_SECS
    /\ first' = [set |-> FALSE, got |-> first.got]
    /\ UNCHANGED <<valid, timer, ret>>

\* the invalidate_later timer fires UPDATE_INTERVAL_SECS after the calc ran:
\* the calc's value is invalidated, nothing is computed
invalidate_later(B) ==
    /\ timer = "armed"
    /\ Len(pushed) < B
    /\ valid' = FALSE
    /\ timer' = "idle"
    /\ now' = now + UPDATE_INTERVAL_SECS
    /\ first' = [set |-> FALSE, got |-> first.got]
    /\ UNCHANGED <<deq, cache, pushed, ret>>

----------------------------------------------------------------------------
(* Specifications *)

NoGot == Got(<<>>, DataFrame(<<>>), NullEntry, FALSE)

NoRet ==
    [who |-> "none", got |-> NoGot,
     out |-> Outcome("none", DataFrame(<<>>), NoNum, NoNum, -1, -1, NoText)]

\* the session as constructed: an empty deque, a calc never computed
Init ==
    /\ deq = <<>>
    /\ cache = [df |-> DataFrame(<<>>), latest |-> NullEntry]
    /\ valid = FALSE
    /\ timer = "idle"
    /\ now = 0
    /\ pushed = <<>>
    /\ first = [set |-> FALSE, got |-> NoGot]
    /\ ret = NoRet

Next ==
    \/ invalidate_later(MaxTicks)
    \/ display_temp(Temps, MaxTicks)
    \/ display_time(Temps, MaxTicks)
    \/ display_df(Temps, MaxTicks)
    \/ display_plot(Temps, MaxTicks)
    \/ display_pie_chart(Temps, MaxTicks)

Spec == Init /\ [][Next]_vars

\* the same session fed by the stubbed source
NextE2E ==
    \/ invalidate_later(MaxTicksE2E)
    \/ display_temp(TempsE2E, MaxTicksE2E)
    \/ display_time(TempsE2E, MaxTicksE2E)
    \/ display_df(TempsE2E, MaxTicksE2E)
    \/ display_plot(TempsE2E, MaxTicksE2E)
    \/ display_pie_chart(TempsE2E, MaxTicksE2E)

SpecE2E == Init /\ [][NextE2E]_vars

\* the readings of a window of values, one second apart
WindowOf(vals) ==
    [i \in 1..Len(vals) |-> [Temp |-> vals[i], Timestamp |-> StrfTime(i - 1)]]

Windows == UNION {[1..n -> TempsFn] : n \in 0..MaxWin}

\* the table consumers applied to any window, the empty one included: the
\* calc holds a value built from a deque with that content
InitFn ==
    \E vals \in Windows :
        /\ deq = WindowOf(vals)
        /\ cache = [df |-> DataFrame(deq),
                    latest |-> IF vals = <<>> THEN NullEntry ELSE deq[Len(deq)]]
        /\ valid = TRUE
        /\ timer = "idle"
        /\ now = Len(vals)
        /\ pushed = deq
        /\ first = [set |-> FALSE, got |-> NoGot]
        /\ ret = NoRet

NextFn ==
    \/ display_df(TempsFn, MaxWin)
    \/ display_plot(TempsFn, MaxWin)
    \/ display_pie_chart(TempsFn, MaxWin)

SpecFn == InitFn /\ [][NextFn]_vars

----------------------------------------------------------------------------
(* Properties *)

Called == ret.who # "none"

TempsOf(rs) == [i \in 1..Len(rs) |-> rs[i].Temp]

RECURSIVE CountAbove(_, _)
CountAbove(vals, cut) ==
    IF vals = <<>> THEN 0
    ELSE (IF Head(vals) > cut THEN 1 ELSE 0) + CountAbove(Tail(vals), cut)

RECURSIVE CountAtOrBelow(_, _)
CountAtOrBelow(vals, cut) ==
    IF vals = <<>> THEN 0
    ELSE (IF Head(vals) <= cut THEN 1 ELSE 0) + CountAtOrBelow(Tail(vals), cut)

\* two frames have the same columns and, row by row, the same temperature
\* and the same instant (a timestamp string and the datetime parsed from it
\* count as the same cell value)
SameTable(a, b) ==
    /\ a.columns = b.columns
    /\ Len(a.rows) = Len(b.rows)
    /\ \A i \in 1..Len(a.rows) :
        /\ a.rows[i].Temp = b.rows[i].Temp
        /\ Instant(a.rows[i].Timestamp) = Instant(b.rows[i].Timestamp)

\* two returned tuples hold equal values
SameValue(g, h) ==
    /\ g.deque_snapshot = h.deque_snapshot
    /\ SameTable(g.df, h.df)
    /\ g.latest = h.latest

\* the three fields of a returned tuple describe the same readings
Consistent(g) ==
    LET n == Len(g.deque_snapshot)
    IN  /\ Len(g.df.rows) = n
        /\ n >= 1
        /\ \A i \in 1..n :
            /\ g.df.rows[i].Temp = g.deque_snapshot[i].Temp
            /\ Instant(g.df.rows[i].Timestamp)
                   = Instant(g.deque_snapshot[i].Timestamp)
        /\ g.latest = g.deque_snapshot[n]
        /\ g.latest.Temp = g.df.rows[n].Temp
        /\ Instant(g.latest.Timestamp) = Instant(g.df.rows[n].Timestamp)

\* C1: after every append the deque holds at most DEQUE_SIZE readings, and
\* they are exactly the last min(appends, DEQUE_SIZE) readings appended, in
\* the order they were appended; with capacity 3, appending 1,2,3,4 leaves
\* 2,3,4.
C1_BoundedHistory ==
    /\ Len(deq) <= DEQUE_SIZE
    /\ deq = LastK(pushed, Min(Len(pushed), DEQUE_SIZE))
    /\ PushAll(<<>>, <<1, 2, 3, 4>>, 3) = <<2, 3, 4>>

\* C1 witness: more readings were appended than the deque holds
C1_Evicted == Len(pushed) > DEQUE_SIZE /\ Len(deq) = DEQUE_SIZE

\* C2: as claimed, every call of the calc after the first one since the last
\* timer firing runs no body and returns a tuple value-equal to the one the
\* first call returned.
C2_ReadsReturnFirstValue ==
    (Called /\ first.set) =>
        /\ ret.got.ran => ret.got = first.got
        /\ SameValue(ret.got, first.got)

\* C3: in every tuple the calc returns, the frame has one row per reading of
\* the deque, in the same order, with the same temperature and the same
\* instant, and the latest entry is the deque's last reading and the frame's
\* last row.
C3_CombinedConsistent ==
    /\ Called => Consistent(ret.got)
    /\ valid => Consistent(Got(deq, cache.df, cache.latest, FALSE))

\* C3 witness: a call served from the cache, after evictions and after
\* display_plot has worked on the frame
C3_LateCachedRead ==
    /\ Called
    /\ ~ret.got.ran
    /\ Len(pushed) > DEQUE_SIZE
    /\ HasColumn(ret.got.df, "best_fit_line")

C5_NoTrendForOneRow ==
    (ret.who = "display_plot" /\ Len(ret.got.df.rows) = 1) =>
        /\ ret.out.status = "ok"
        /\ ret.out.slope = NoNum
        /\ ret.out.intercept = NoNum

\* C6: as claimed, the cached frame keeps the columns and cells the
\* recomputation gave it, whatever render functions have run since.
C6_FrameNeverMutated == valid => SameTable(cache.df, DataFrame(deq))

C8_EndToEnd ==
    /\ (valid /\ TempsOf(pushed) = <<170, 180, 190>>) =>
        /\ Len(cache.df.rows) = 3
        /\ TempsOf(cache.df.rows) = <<170, 180, 190>>
        /\ cache.latest.Temp = 190
        /\ (ret.who = "display_plot" /\ Len(ret.got.df.rows) = 3) =>
            /\ ret.out.status = "ok"
            /\ ret.out.slope = <<"num", 10, 1>>
            /\ ret.out.intercept = <<"num", 170, 1>>
    /\ LET fit == linregress(Range(5), <<1, 2, 3, 4, 5>>, "raises")
       IN  fit.slope = <<"num", 1, 1>> /\ fit.intercept = <<"num", 1, 1>>

\* C8 witness: display_plot has run on the frame of 17.0, 18.0, 19.0
C8_PlottedThree ==
    /\ valid
    /\ TempsOf(pushed) = <<170, 180, 190>>
    /\ ret.who = "display_plot"
    /\ ret.out.status = "ok"
    /\ Len(ret.got.df.rows) = 3

\* C9: display_pie_chart counts every value of the frame in exactly one of
\* the two groups: over is the number of values above 20.0, under the number
\* at or below it, and they add up to the number of rows; 18,19,20,21,22
\* gives 2 and 3.
C9_BucketsPartition ==
    /\ ret.who = "display_pie_chart" =>
        LET vals == TempsOf(ret.got.df.rows)
        IN  /\ ret.out.status = "ok"
            /\ ret.out.over = CountAbove(vals, Threshold)
            /\ ret.out.under = CountAtOrBelow(vals, Threshold)
            /\ ret.out.over + ret.out.under = Len(vals)
    /\ LET df == DataFrame(WindowOf(<<180, 190, 200, 210, 220>>))
       IN  CountOver(df) = 2 /\ CountUnder(df) = 3

\* C9 witness: the pie chart has counted a full window with values on both
\* sides of the cut point
C9_MixedWindowCounted ==
    /\ ret.who = "display_pie_chart"
    /\ Len(ret.got.df.rows) = DEQUE_SIZE
    /\ ret.out.over >= 1
    /\ ret.out.under >= 1

\* C10: every tuple a render function gets from the calc has a frame of at
\* least 1 and at most DEQUE_SIZE rows, so neither display_plot nor
\* display_pie_chart meets the empty frame, and what is returned while only
\* one reading has been pushed has exactly 1 row.
C10_RowsBetweenOneAndCapacity ==
    Called =>
        /\ Len(ret.got.df.rows) >= 1
        /\ Len(ret.got.df.rows) <= DEQUE_SIZE
        /\ ret.out.status \notin {"UnboundLocalError", "KeyError"}
        /\ Len(pushed) = 1 => Len(ret.got.df.rows) = 1

\* C10 witness: the very first call, by display_plot, got a one-row frame
C10_FirstResult ==
    /\ ret.who = "display_plot"
    /\ ret.got.ran
    /\ Len(pushed) = 1
    /\ Len(ret.got.df.rows) = 1

====
